---- MODULE Spec2Model ----
(***************************************************************************)
(* Model of the Databricks MCP server (src/src/databricks_mcp/server.py):  *)
(* the DatabricksManager credential store and the FastMCP tool functions.  *)
(*                                                                         *)
(* Conventions                                                             *)
(*   - Optional[T] is a sequence of length 0 (None) or 1 (<<v>>).          *)
(*   - Text built with f-strings is a sequence of string fragments, so     *)
(*     that "the message contains N" is a statement about its fragments.   *)
(*   - A language tag is a sequence of one-character strings, so that      *)
(*     str.upper() is computed character by character.                     *)
(*   - A Python dict is a sequence of [key, val] pairs in insertion order. *)
(*   - Every tool invocation runs to completion (FastMCP dispatches one    *)
(*     call at a time), so each tool is one action; `last` records the     *)
(*     call, the backend's behaviour during it, the backend calls it made  *)
(*     and how it ended (returned value or raised exception).              *)
(*   - `registered` is a history variable: for each name, the host and     *)
(*     token of the most recent add_databricks_connection call, if any.    *)
(***************************************************************************)
EXTENDS Integers, Sequences, FiniteSets, TLC

VARIABLES connections, last, registered

vars == <<connections, last, registered>>

\* ---------------------------------------------------------------- bounds
MaxEntries == 2
MaxItems == 2

\* ------------------------------------------------------- generic helpers
None == <<>>

Some(v) == <<v>>

Option(S) == {None} \cup {Some(v) : v \in S}

\* Python truthiness of an Optional[str]: None and "" are falsy
Truthy(o) == o # None /\ o[1] # ""

SeqUpTo(S, n) == UNION {[1..k -> S] : k \in 0..n}

Contains(text, frag) == \E i \in 1..Len(text) : text[i] = frag

\* ------------------------------------------------------------ dict model
DictHas(d, k) == \E i \in 1..Len(d) : d[i].key = k

DictGet(d, k) == d[CHOOSE i \in 1..Len(d) : d[i].key = k].val

DictKeys(d) == [i \in 1..Len(d) |-> d[i].key]

DictSet(d, k, v) ==
    IF DictHas(d, k)
    THEN [i \in 1..Len(d) |-> IF d[i].key = k THEN [key |-> k, val |-> v] ELSE d[i]]
    ELSE Append(d, [key |-> k, val |-> v])

\* ------------------------------------------------- DatabricksConnection
DatabricksConnection(name, host, token) ==
    [name |-> name, host |-> host, token |-> token]

create_client(conn) == [host |-> conn.host, token |-> conn.token]

\* ------------------------------------------------------ _load_connections
Fields == {"name", "host", "token"}

\* the loop body of _load_connections: conn_data["name"], ["host"], ["token"]
\* raise KeyError when the field is absent
EntryRaises(conn_data) == ~(Fields \subseteq DOMAIN conn_data)

RECURSIVE LoadEntries(_, _)
\* the for loop inside the try block: the first entry that raises ends the
\* loop (the except clause is outside the loop); earlier entries stay stored
LoadEntries(items, store) ==
    IF items = <<>> THEN store
    ELSE LET conn_name == Head(items).key
             conn_data == Head(items).data
         IN IF EntryRaises(conn_data)
            THEN store
            ELSE LoadEntries(Tail(items),
                     DictSet(store, conn_name,
                         DatabricksConnection(conn_data["name"],
                             conn_data["host"], conn_data["token"])))

LoadConfigStage(config) ==
    IF config.kind = "parsed" THEN LoadEntries(config.connections, <<>>) ELSE <<>>

\* variant: the environment record is added without the emptiness test
LoadEnvStage_merging(store, host, token) ==
    IF Truthy(host) /\ Truthy(token)
    THEN DictSet(store, "default", DatabricksConnection("default", host[1], token[1]))
    ELSE store

LoadEnvStage(store, host, token) ==
    IF store = <<>>
    THEN IF Truthy(host) /\ Truthy(token)
         THEN DictSet(store, "default",
                  DatabricksConnection("default", host[1], token[1]))
         ELSE store
    ELSE store

_load_connections(config, host, token) ==
    LoadEnvStage(LoadConfigStage(config), host, token)

\* ---------------------------------------------------- DatabricksManager
\* variant: an existing record is kept (dict.setdefault instead of assignment)
add_connection_keep_existing(store, name, host, token) ==
    IF DictHas(store, name) THEN store
    ELSE DictSet(store, name, DatabricksConnection(name, host, token))

add_connection(store, name, host, token) ==
    DictSet(store, name, DatabricksConnection(name, host, token))

NotFoundMessage(connection_name) ==
    <<"Connection '", connection_name, "' not found">>

Return(v) == [kind |-> "return", value |-> v]

Raise(exc, msg) == [kind |-> "raise", exc |-> exc, msg |-> msg]

\* get_client: either raises ValueError or returns a fresh client
get_client(store, connection_name) ==
    IF ~DictHas(store, connection_name)
    THEN Raise("ValueError", NotFoundMessage(connection_name))
    ELSE Return(create_client(DictGet(store, connection_name)))

list_connections(store) == DictKeys(store)

\* ------------------------------------------------------ input universes
LanguageTags == {<<"p", "y", "t", "h", "o", "n">>, <<"P", "y", "t", "h", "o", "n">>,
                 <<"P", "Y", "T", "H", "O", "N">>, <<"s", "q", "l">>,
                 <<"S", "c", "a", "l", "a">>, <<"R">>,
                 <<"J", "A", "V", "A">>, <<>>}
Contents == {"", "x = 1"}
WarehouseIds == {"", "w9"}
ConfigKeys == {"a", "b", "default"}
EntryNames == {"a", "zz"}
EnvHosts == {"", "h1"}
EnvTokens == {"", "t1"}

EntryData(n, h, t) ==
    LET present == {f \in Fields : (f = "name" /\ n # None) \/ (f = "host" /\ h # None)
                                     \/ (f = "token" /\ t # None)}
    IN [f \in present |-> IF f = "name" THEN n[1] ELSE IF f = "host" THEN h[1] ELSE t[1]]

Entries == {EntryData(n, h, t) : n \in Option(EntryNames), h \in Option({"h1"}), t \in Option({"t1"})}

DistinctKeys(items) == \A i, j \in 1..Len(items) : i # j => items[i].key # items[j].key

\* the configuration files the tool specification starts from
StartupConfigs ==
    {[kind |-> "absent"]}
    \cup {[kind |-> "parsed", connections |-> <<[key |-> k, data |-> e]>>] :
            k \in ConfigKeys, e \in Entries}

ConfigFiles ==
    {[kind |-> "absent"], [kind |-> "unparseable"]}
    \cup {[kind |-> "parsed", connections |-> items] :
            items \in {s \in SeqUpTo([key : ConfigKeys, data : Entries], MaxEntries) : DistinctKeys(s)}}

RegisterNames == {"a"}
RegisterCreds == {<<"h2", "t2">>, <<"", "">>}
ResolveNames == {"a", "default"}

\* ------------------------------------------------------------------ Init
\* the state once the module is imported: databricks_manager =
\* DatabricksManager() has run _load_connections on whatever configuration
\* file and environment the process was started with
Init ==
    \E config \in StartupConfigs, host \in Option(EnvHosts), token \in Option(EnvTokens) :
        /\ connections = _load_connections(config, host, token)
        /\ last = [op |-> "load"]
        /\ registered = [n \in RegisterNames |-> None]

\* DatabricksManager.__init__ taken apart: the empty dict of line 28 with the
\* configuration file and environment that _load_connections is about to read
InitLoad ==
    \E config \in ConfigFiles, host \in Option(EnvHosts), token \in Option(EnvTokens) :
        /\ connections = <<>>
        /\ last = [op |-> "__init__", config |-> config, host |-> host, token |-> token]
        /\ registered = [n \in RegisterNames |-> None]

Load ==
    /\ last.op = "__init__"
    /\ connections' = _load_connections(last.config, last.host, last.token)
    /\ last' = [last EXCEPT !.op = "load"]
    /\ UNCHANGED registered

\* ------------------------------------------------------ backend universe
\* what a backend capability can do when called: a lazily produced sequence
\* yields `items` and then, when exc is not None, raises
BackendErrors == {"e1"}

ListOutcomes(Items) == [items : SeqUpTo(Items, MaxItems), exc : Option(BackendErrors)]

\* a single-result capability either returns `value` or raises
CallOutcomes(Values) ==
    {[exc |-> None, value |-> v] : v \in Values} \cup {[exc |-> Some(e)] : e \in BackendErrors}

Enum(v) == [value |-> v]

Clusters == {[cluster_id |-> "c1", cluster_name |-> "n1", state |-> Some(Enum("RUNNING")),
              node_type_id |-> "nt", num_workers |-> 1]}
WorkspaceItems == {[path |-> "/nb", object_type |-> Some(Enum("NOTEBOOK")),
                    language |-> None, size |-> 1]}
Catalogs == {[name |-> "main", comment |-> "c", full_name |-> "main", catalog_type |-> None]}
Schemas == {[name |-> "s", catalog_name |-> "main", comment |-> "c", full_name |-> "main.s"]}
Tables == {[name |-> "t", catalog_name |-> "main", schema_name |-> "s",
            table_type |-> Some(Enum("MANAGED")), comment |-> "c"]}
Warehouses == {[id |-> "w1", name |-> "one", state |-> Some(Enum("RUNNING")),
                cluster_size |-> "S", num_clusters |-> 1],
               [id |-> "w2", name |-> "two", state |-> None,
                cluster_size |-> "S", num_clusters |-> 1]}

\* x.value if x else None
EnumValue(x) == IF x # None THEN Some(x[1].value) ELSE None

\* {"error": str(e)}
ErrorRecord(exc) == [error |-> <<exc[1]>>]

BackendCall(cap, client, args, behaviour) ==
    [cap |-> cap, client |-> client, args |-> args, behaviour |-> behaviour]

Result(calls, outcome) == [calls |-> calls, outcome |-> outcome]

\* for x in <capability>(): rows.append(...) inside try/except Exception;
\* `rows` is the list built from all the items the capability yields
GuardedListing(behaviour, rows) ==
    IF behaviour.exc # None
    THEN Return(<<ErrorRecord(behaviour.exc)>>)
    ELSE Return(rows)

\* the same loop with no try/except around it
UnguardedListing(behaviour, rows) ==
    IF behaviour.exc # None
    THEN Raise("BackendError", <<behaviour.exc[1]>>)
    ELSE Return(rows)

\* ------------------------------------------------------------ the tools
ClusterRow(c) == [cluster_id |-> c.cluster_id, cluster_name |-> c.cluster_name,
                  state |-> EnumValue(c.state), node_type_id |-> c.node_type_id,
                  num_workers |-> c.num_workers]

list_clusters(store, connection_name, behaviour) ==
    LET client == get_client(store, connection_name)
    IN IF client.kind = "raise" THEN Result(<<>>, client)
       ELSE Result(<<BackendCall("clusters.list", client.value, <<>>, behaviour)>>,
                   UnguardedListing(behaviour,
                       [i \in 1..Len(behaviour.items) |-> ClusterRow(behaviour.items[i])]))

WorkspaceRow(item) == [path |-> item.path, object_type |-> EnumValue(item.object_type),
                       language |-> EnumValue(item.language), size |-> item.size]

list_notebooks(store, path, connection_name, behaviour) ==
    LET client == get_client(store, connection_name)
    IN IF client.kind = "raise" THEN Result(<<>>, client)
       ELSE Result(<<BackendCall("workspace.list", client.value, <<path>>, behaviour)>>,
                   GuardedListing(behaviour,
                       [i \in 1..Len(behaviour.items) |-> WorkspaceRow(behaviour.items[i])]))

CatalogRow(c) == [name |-> c.name, comment |-> c.comment, full_name |-> c.full_name,
                  catalog_type |-> EnumValue(c.catalog_type)]

list_catalogs(store, connection_name, behaviour) ==
    LET client == get_client(store, connection_name)
    IN IF client.kind = "raise" THEN Result(<<>>, client)
       ELSE Result(<<BackendCall("catalogs.list", client.value, <<>>, behaviour)>>,
                   GuardedListing(behaviour,
                       [i \in 1..Len(behaviour.items) |-> CatalogRow(behaviour.items[i])]))

SchemaRow(s) == [name |-> s.name, catalog_name |-> s.catalog_name, comment |-> s.comment,
                 full_name |-> s.full_name]

list_schemas(store, catalog_name, connection_name, behaviour) ==
    LET client == get_client(store, connection_name)
    IN IF client.kind = "raise" THEN Result(<<>>, client)
       ELSE Result(<<BackendCall("schemas.list", client.value, <<catalog_name>>, behaviour)>>,
                   GuardedListing(behaviour,
                       [i \in 1..Len(behaviour.items) |-> SchemaRow(behaviour.items[i])]))

TableRow(t) == [name |-> t.name, catalog_name |-> t.catalog_name,
                schema_name |-> t.schema_name, table_type |-> EnumValue(t.table_type),
                comment |-> t.comment]

list_tables(store, catalog_name, schema_name, connection_name, behaviour) ==
    LET client == get_client(store, connection_name)
    IN IF client.kind = "raise" THEN Result(<<>>, client)
       ELSE Result(<<BackendCall("tables.list", client.value,
                                 <<catalog_name, schema_name>>, behaviour)>>,
                   GuardedListing(behaviour,
                       [i \in 1..Len(behaviour.items) |-> TableRow(behaviour.items[i])]))

WarehouseRow(w) == [id |-> w.id, name |-> w.name, state |-> EnumValue(w.state),
                    cluster_size |-> w.cluster_size, num_clusters |-> w.num_clusters]

list_sql_warehouses(store, connection_name, behaviour) ==
    LET client == get_client(store, connection_name)
    IN IF client.kind = "raise" THEN Result(<<>>, client)
       ELSE Result(<<BackendCall("warehouses.list", client.value, <<>>, behaviour)>>,
                   GuardedListing(behaviour,
                       [i \in 1..Len(behaviour.items) |-> WarehouseRow(behaviour.items[i])]))

\* --------------------------------------------------------- str.upper()
AsciiLower == <<"a", "b", "c", "d", "e", "f", "g", "h", "i", "j", "k", "l", "m",
           "n", "o", "p", "q", "r", "s", "t", "u", "v", "w", "x", "y", "z">>
AsciiUpper == <<"A", "B", "C", "D", "E", "F", "G", "H", "I", "J", "K", "L", "M",
           "N", "O", "P", "Q", "R", "S", "T", "U", "V", "W", "X", "Y", "Z">>

UpperChar(c) ==
    IF \E i \in 1..Len(AsciiLower) : AsciiLower[i] = c
    THEN AsciiUpper[CHOOSE i \in 1..Len(AsciiLower) : AsciiLower[i] = c]
    ELSE c

\* variant: the tag is looked up as given
upper_omitted(s) == s

upper(s) == [i \in 1..Len(s) |-> UpperChar(s[i])]

\* lang_map of create_notebook: key -> Language enum member
lang_map == << [key |-> <<"P", "Y", "T", "H", "O", "N">>, val |-> "Language.PYTHON"],
               [key |-> <<"S", "Q", "L">>, val |-> "Language.SQL"],
               [key |-> <<"S", "C", "A", "L", "A">>, val |-> "Language.SCALA"],
               [key |-> <<"R">>, val |-> "Language.R"] >>

\* content.encode("utf-8") if content else b""
EncodeContent(content) == [bytes |-> content]

\* variant: the language tag is validated before the connection is resolved
create_notebook_validating_first(store, path, language, content, connection_name, behaviour) ==
    LET client == get_client(store, connection_name)
    IN IF ~DictHas(lang_map, upper(language))
       THEN Result(<<>>, Raise("ValueError", <<"Unsupported language: ">> \o language))
       ELSE IF client.kind = "raise" THEN Result(<<>>, client)
       ELSE LET call == BackendCall("workspace.upload", client.value,
                            [path |-> path, format |-> "ImportFormat.SOURCE",
                             language |-> DictGet(lang_map, upper(language)),
                             content |-> EncodeContent(content), overwrite |-> TRUE],
                            behaviour)
            IN IF behaviour.exc # None
               THEN Result(<<call>>, Raise("BackendError", <<behaviour.exc[1]>>))
               ELSE Result(<<call>>, Return(<<"Notebook created at ", path>>))

create_notebook(store, path, language, content, connection_name, behaviour) ==
    LET client == get_client(store, connection_name)
    IN IF client.kind = "raise" THEN Result(<<>>, client)
       ELSE IF ~DictHas(lang_map, upper(language))
       THEN Result(<<>>, Raise("ValueError", <<"Unsupported language: ">> \o language))
       ELSE LET call == BackendCall("workspace.upload", client.value,
                            [path |-> path, format |-> "ImportFormat.SOURCE",
                             language |-> DictGet(lang_map, upper(language)),
                             content |-> EncodeContent(content), overwrite |-> TRUE],
                            behaviour)
            IN IF behaviour.exc # None
               THEN Result(<<call>>, Raise("BackendError", <<behaviour.exc[1]>>))
               ELSE Result(<<call>>, Return(<<"Notebook created at ", path>>))

\* response.decode("utf-8"): a body that is not valid UTF-8 raises
\* UnicodeDecodeError inside the try block
NotebookBodies == {[bytes |-> "print(1)", utf8 |-> TRUE], [bytes |-> "\\xff", utf8 |-> FALSE]}

get_notebook_content(store, path, connection_name, behaviour) ==
    LET client == get_client(store, connection_name)
    IN IF client.kind = "raise" THEN Result(<<>>, client)
       ELSE LET call == BackendCall("workspace.download", client.value, <<path>>, behaviour)
            IN IF behaviour.exc # None
               THEN Result(<<call>>, Return(<<"Error reading notebook: ", behaviour.exc[1]>>))
               ELSE IF ~behaviour.value.utf8
               THEN Result(<<call>>, Return(<<"Error reading notebook: ", "UnicodeDecodeError">>))
               ELSE Result(<<call>>, Return(<<behaviour.value.bytes>>))

\* statement_execution.execute_statement responses
Responses == {[statement_id |-> "s1", status |-> Some([state |-> Enum("SUCCEEDED")]),
               result |-> Some([data_array |-> <<"row">>]),
               manifest |-> Some([schema |-> Some([columns |-> <<[name |-> "c1"]>>])])],
              [statement_id |-> "s2", status |-> None, result |-> None, manifest |-> None]}

StatementRow(response) ==
    [statement_id |-> response.statement_id,
     status |-> IF response.status # None THEN Some(response.status[1].state.value) ELSE None,
     result |-> IF response.result # None THEN Some(response.result[1].data_array) ELSE None,
     schema |-> IF response.manifest # None /\ response.manifest[1].schema # None
                THEN Some([i \in 1..Len(response.manifest[1].schema[1].columns) |->
                              response.manifest[1].schema[1].columns[i].name])
                ELSE None]

\* the statement_execution.execute_statement call and the projection after it
SubmitStatement(client, query, warehouse_id, calls, execution) ==
    LET call == BackendCall("statement_execution.execute_statement", client,
                            [statement |-> query, warehouse_id |-> warehouse_id], execution)
    IN IF execution.exc # None
       THEN Result(Append(calls, call), Return(ErrorRecord(execution.exc)))
       ELSE Result(Append(calls, call), Return(StatementRow(execution.value)))

\* variant: the last enumerated warehouse is used instead of the first
execute_sql_query_last(store, query, warehouse_id, connection_name, enumeration, execution) ==
    LET client == get_client(store, connection_name)
    IN IF client.kind = "raise" THEN Result(<<>>, client)
       ELSE IF ~Truthy(warehouse_id)
       THEN LET listing == BackendCall("warehouses.list", client.value, <<>>, enumeration)
            IN IF enumeration.exc # None
               THEN Result(<<listing>>, Return(ErrorRecord(enumeration.exc)))
               ELSE IF enumeration.items = <<>>
               THEN Result(<<listing>>, Return([error |-> <<"No SQL warehouses available">>]))
               ELSE SubmitStatement(client.value, query,
                                    enumeration.items[Len(enumeration.items)].id,
                                    <<listing>>, execution)
       ELSE SubmitStatement(client.value, query, warehouse_id[1], <<>>, execution)

execute_sql_query(store, query, warehouse_id, connection_name, enumeration, execution) ==
    LET client == get_client(store, connection_name)
    IN IF client.kind = "raise" THEN Result(<<>>, client)
       ELSE IF ~Truthy(warehouse_id)
       THEN LET listing == BackendCall("warehouses.list", client.value, <<>>, enumeration)
            IN IF enumeration.exc # None
               THEN Result(<<listing>>, Return(ErrorRecord(enumeration.exc)))
               ELSE IF enumeration.items = <<>>
               THEN Result(<<listing>>, Return([error |-> <<"No SQL warehouses available">>]))
               ELSE SubmitStatement(client.value, query, enumeration.items[1].id,
                                    <<listing>>, execution)
       ELSE SubmitStatement(client.value, query, warehouse_id[1], <<>>, execution)

TableInfos == {[name |-> "t", catalog_name |-> "main", schema_name |-> "default",
                table_type |-> Some(Enum("MANAGED")), comment |-> "c",
                columns |-> Some(<<[name |-> "id", type_name |-> "LONG", type_text |-> "bigint",
                                    comment |-> "k", nullable |-> FALSE]>>),
                storage_location |-> "loc", data_source_format |-> Some(Enum("DELTA"))],
               [name |-> "v", catalog_name |-> "main", schema_name |-> "default",
                table_type |-> None, comment |-> "c", columns |-> None,
                storage_location |-> "loc", data_source_format |-> None]}

ColumnRow(col) == [name |-> col.name, type_name |-> col.type_name, type_text |-> col.type_text,
                   comment |-> col.comment, nullable |-> col.nullable]

TableInfoRow(table) ==
    [name |-> table.name, catalog_name |-> table.catalog_name,
     schema_name |-> table.schema_name, table_type |-> EnumValue(table.table_type),
     comment |-> table.comment,
     columns |-> IF table.columns # None
                 THEN [i \in 1..Len(table.columns[1]) |-> ColumnRow(table.columns[1][i])]
                 ELSE <<>>,
     storage_location |-> table.storage_location,
     data_source_format |-> EnumValue(table.data_source_format)]

get_table_info(store, table_name, catalog_name, schema_name, connection_name, behaviour) ==
    LET client == get_client(store, connection_name)
    IN IF client.kind = "raise" THEN Result(<<>>, client)
       ELSE LET call == BackendCall("tables.get", client.value,
                            [full_name |-> <<catalog_name, ".", schema_name, ".", table_name>>],
                            behaviour)
            IN IF behaviour.exc # None
               THEN Result(<<call>>, Return(ErrorRecord(behaviour.exc)))
               ELSE Result(<<call>>, Return(TableInfoRow(behaviour.value)))

\* @mcp.tool() add_databricks_connection
add_databricks_connection ==
    \E name \in RegisterNames, cred \in RegisterCreds :
        /\ connections' = add_connection(connections, name, cred[1], cred[2])
        /\ registered' = [registered EXCEPT ![name] = Some([host |-> cred[1], token |-> cred[2]])]
        /\ last' = [op |-> "add_databricks_connection",
                    args |-> [name |-> name, host |-> cred[1], token |-> cred[2]],
                    calls |-> <<>>,
                    outcome |-> Return(<<"Connection '", name, "' added successfully">>)]

\* @mcp.tool() list_databricks_connections
list_databricks_connections ==
    \E connection_name \in ResolveNames :
        /\ last' = [op |-> "list_databricks_connections",
                    args |-> [connection_name |-> connection_name],
                    calls |-> <<>>,
                    outcome |-> Return([connections |-> list_connections(connections)])]
        /\ UNCHANGED <<connections, registered>>

GatewayStep(op, args, result) ==
    /\ last' = [op |-> op, args |-> args, calls |-> result.calls, outcome |-> result.outcome]
    /\ UNCHANGED <<connections, registered>>

list_clusters_tool ==
    \E connection_name \in ResolveNames, behaviour \in ListOutcomes(Clusters) :
        GatewayStep("list_clusters", [connection_name |-> connection_name],
                    list_clusters(connections, connection_name, behaviour))

list_notebooks_tool ==
    \E connection_name \in ResolveNames, behaviour \in ListOutcomes(WorkspaceItems) :
        GatewayStep("list_notebooks", [path |-> "/", connection_name |-> connection_name],
                    list_notebooks(connections, "/", connection_name, behaviour))

list_catalogs_tool ==
    \E connection_name \in ResolveNames, behaviour \in ListOutcomes(Catalogs) :
        GatewayStep("list_catalogs", [connection_name |-> connection_name],
                    list_catalogs(connections, connection_name, behaviour))

list_schemas_tool ==
    \E connection_name \in ResolveNames, behaviour \in ListOutcomes(Schemas) :
        GatewayStep("list_schemas",
                    [catalog_name |-> "main", connection_name |-> connection_name],
                    list_schemas(connections, "main", connection_name, behaviour))

list_tables_tool ==
    \E connection_name \in ResolveNames, behaviour \in ListOutcomes(Tables) :
        GatewayStep("list_tables",
                    [catalog_name |-> "main", schema_name |-> "default",
                     connection_name |-> connection_name],
                    list_tables(connections, "main", "default", connection_name, behaviour))

list_sql_warehouses_tool ==
    \E connection_name \in ResolveNames, behaviour \in ListOutcomes(Warehouses) :
        GatewayStep("list_sql_warehouses", [connection_name |-> connection_name],
                    list_sql_warehouses(connections, connection_name, behaviour))

create_notebook_tool ==
    \E connection_name \in ResolveNames, language \in LanguageTags, content \in Contents,
       behaviour \in CallOutcomes({None}) :
        GatewayStep("create_notebook",
                    [path |-> "/nb", language |-> language, content |-> content,
                     connection_name |-> connection_name],
                    create_notebook(connections, "/nb", language, content, connection_name,
                                    behaviour))

get_notebook_content_tool ==
    \E connection_name \in ResolveNames, behaviour \in CallOutcomes(NotebookBodies) :
        GatewayStep("get_notebook_content",
                    [path |-> "/nb", connection_name |-> connection_name],
                    get_notebook_content(connections, "/nb", connection_name, behaviour))

execute_sql_query_tool ==
    \E connection_name \in ResolveNames, warehouse_id \in Option(WarehouseIds),
       enumeration \in ListOutcomes(Warehouses), execution \in CallOutcomes(Responses) :
        GatewayStep("execute_sql_query",
                    [query |-> "SELECT 1", warehouse_id |-> warehouse_id,
                     connection_name |-> connection_name],
                    execute_sql_query(connections, "SELECT 1", warehouse_id, connection_name,
                                      enumeration, execution))

get_table_info_tool ==
    \E connection_name \in ResolveNames, behaviour \in CallOutcomes(TableInfos) :
        GatewayStep("get_table_info",
                    [table_name |-> "t", catalog_name |-> "main", schema_name |-> "default",
                     connection_name |-> connection_name],
                    get_table_info(connections, "t", "main", "default", connection_name,
                                   behaviour))

Next ==
    \/ add_databricks_connection
    \/ list_databricks_connections
    \/ list_clusters_tool
    \/ list_notebooks_tool
    \/ list_catalogs_tool
    \/ list_schemas_tool
    \/ list_tables_tool
    \/ list_sql_warehouses_tool
    \/ create_notebook_tool
    \/ get_notebook_content_tool
    \/ execute_sql_query_tool
    \/ get_table_info_tool

Spec == Init /\ [][Next]_vars

\* the tools are callable once the module is imported
Imported == last.op # "__init__"

NextLoad ==
    \/ Load
    \/ Imported /\ add_databricks_connection
    \/ Imported /\ list_databricks_connections

SpecLoad == InitLoad /\ [][NextLoad]_vars
\* ===================================================== the properties
GatewayOps == {"list_clusters", "create_notebook", "list_notebooks", "get_notebook_content",
               "execute_sql_query", "list_catalogs", "list_schemas", "list_tables",
               "get_table_info", "list_sql_warehouses"}

IsGatewayCall == last.op \in GatewayOps

Resolved == IsGatewayCall /\ DictHas(connections, last.args.connection_name)

IsNotFound(outcome, name) ==
    /\ outcome.kind = "raise"
    /\ outcome.exc = "ValueError"
    /\ Len(outcome.msg) = 3
    /\ outcome.msg[1] = "Connection '"
    /\ outcome.msg[3] = "' not found"
    /\ Contains(outcome.msg, name)

AllNames == ConfigKeys \cup RegisterNames \cup ResolveNames \cup {"staging"}

Occurrences(seq, x) == Cardinality({i \in 1..Len(seq) : seq[i] = x})

\* C1: resolving a name yields a client bound to the host and token of the
\* most recent registration under that name (a later registration replaces
\* the earlier record, and the listing carries the name exactly once);
\* resolving a name that is not in the store fails with a ValueError whose
\* message contains the name.
C1_ResolveReflectsLatestRegister ==
    /\ \A n \in RegisterNames :
          registered[n] # None =>
             /\ get_client(connections, n) = Return(registered[n][1])
             /\ Occurrences(list_connections(connections), n) = 1
    /\ \A n \in AllNames :
          ~(\E i \in 1..Len(connections) : connections[i].key = n) =>
             IsNotFound(get_client(connections, n), n)
    /\ IsGatewayCall =>
          LET n == last.args.connection_name
          IN /\ (n \in RegisterNames /\ registered[n] # None) =>
                   /\ ~IsNotFound(last.outcome, n)
                   /\ \A i \in 1..Len(last.calls) : last.calls[i].client = registered[n][1]
             /\ ~DictHas(connections, n) => IsNotFound(last.outcome, n)

C1_Witness ==
    /\ last.op = "list_catalogs"
    /\ last.args.connection_name = "a"
    /\ registered["a"] = Some([host |-> "h2", token |-> "t2"])
    /\ Len(last.calls) = 1
    /\ last.calls[1].client.host = "h2"
    /\ Len(connections) = 2
ListingOps == {"list_clusters", "list_catalogs", "list_schemas", "list_tables",
               "list_sql_warehouses"}

BackendRaised == \E i \in 1..Len(last.calls) : last.calls[i].behaviour.exc # None

RaisedMessage ==
    last.calls[CHOOSE i \in 1..Len(last.calls) : last.calls[i].behaviour.exc # None].behaviour.exc[1]

\* C2: when the backend raises during list_clusters, list_catalogs,
\* list_schemas, list_tables or list_sql_warehouses, the tool returns a
\* one-element list holding only an error record with the exception's
\* message; the exception does not escape.
C2_ListingErrorsConverted ==
    (last.op \in ListingOps /\ BackendRaised) =>
        last.outcome = Return(<<[error |-> <<RaisedMessage>>]>>)

NonListingOps == {"create_notebook", "get_notebook_content", "execute_sql_query",
                  "get_table_info"}

IsUnsupportedLanguage(outcome) ==
    /\ outcome.kind = "raise"
    /\ outcome.exc = "ValueError"
    /\ outcome.msg[1] = "Unsupported language: "

\* C3: create_notebook, get_notebook_content, execute_sql_query and
\* get_table_info never raise a backend exception: it comes back as a
\* returned failure value carrying the message (an error record, or the
\* inline error text of get_notebook_content); only the unknown-connection
\* and unsupported-language errors are raised.
C3_BackendFailuresConverted ==
    last.op \in NonListingOps =>
        /\ last.outcome.kind = "raise" =>
              \/ IsNotFound(last.outcome, last.args.connection_name)
              \/ IsUnsupportedLanguage(last.outcome)
        /\ BackendRaised =>
              /\ last.outcome.kind = "return"
              /\ IF last.op \in {"create_notebook", "get_notebook_content"}
                 THEN Contains(last.outcome.value, RaisedMessage)
                 ELSE last.outcome.value = [error |-> <<RaisedMessage>>]

ValidEntry(data) == {"name", "host", "token"} \subseteq DOMAIN data

\* C4: after loading a parseable configuration file the store holds a record
\* for every entry that supplies name, host and token, wherever an entry
\* lacking one of them sits in the mapping.
C4_EveryValidEntryLoaded ==
    (last.op = "load" /\ last.config.kind = "parsed") =>
        \A i \in 1..Len(last.config.connections) :
            LET entry == last.config.connections[i]
            IN ValidEntry(entry.data) =>
                  /\ DictHas(connections, entry.key)
                  /\ DictGet(connections, entry.key) =
                        [name |-> entry.data["name"], host |-> entry.data["host"],
                         token |-> entry.data["token"]]

NoValidEntry(config) ==
    \/ config.kind \in {"absent", "unparseable"}
    \/ /\ config.kind = "parsed"
       /\ \A i \in 1..Len(config.connections) : ~ValidEntry(config.connections[i].data)

EnvSupplied(o) == o \in {Some(v) : v \in (EnvHosts \cup EnvTokens) \ {""}}

\* C5: the store after loading is decided by stages without merging: when the
\* configuration stage yields records the store is exactly those records;
\* when it yields none (file absent, unparseable, or without a valid entry)
\* the store is the single record "default" built from the environment when
\* both variables are set and non-empty, and otherwise it is empty and every
\* resolution, "default" included, fails with the unknown-connection error.
C5_StagesDoNotMerge ==
    last.op = "load" =>
        LET stage == LoadConfigStage(last.config)
        IN /\ NoValidEntry(last.config) => stage = <<>>
           /\ stage # <<>> => connections = stage
           /\ stage = <<>> =>
                 IF EnvSupplied(last.host) /\ EnvSupplied(last.token)
                 THEN connections = <<[key |-> "default",
                                       val |-> [name |-> "default", host |-> last.host[1],
                                                token |-> last.token[1]]]>>
                 ELSE /\ connections = <<>>
                      /\ \A n \in AllNames : IsNotFound(get_client(connections, n), n)

C5_Witness ==
    /\ last.op = "load"
    /\ last.config.kind = "parsed"
    /\ Len(last.config.connections) = 2
    /\ NoValidEntry(last.config)
    /\ last.host = Some("h1")
    /\ last.token = Some("t1")
    /\ DictKeys(connections) = <<"default">>

\* C6: every record in the store has a non-empty name, host and token.
C6_FieldsNonEmpty ==
    \A i \in 1..Len(connections) :
        /\ connections[i].val.name # ""
        /\ connections[i].val.host # ""
        /\ connections[i].val.token # ""

LowerChar(c) ==
    IF \E i \in 1..Len(AsciiUpper) : AsciiUpper[i] = c
    THEN AsciiLower[CHOOSE i \in 1..Len(AsciiUpper) : AsciiUpper[i] = c]
    ELSE c

FoldCase(s) == [i \in 1..Len(s) |-> LowerChar(s[i])]

FoldedLanguages ==
    << [key |-> <<"p", "y", "t", "h", "o", "n">>, val |-> "Language.PYTHON"],
       [key |-> <<"s", "q", "l">>, val |-> "Language.SQL"],
       [key |-> <<"s", "c", "a", "l", "a">>, val |-> "Language.SCALA"],
       [key |-> <<"r">>, val |-> "Language.R"] >>

\* C7: create_notebook on a registered connection accepts a language tag
\* exactly when it equals PYTHON, SQL, SCALA or R up to letter case; accepted
\* tags that differ only in case make the same upload call (that language,
\* overwrite on, the content as given, empty allowed) and, when the upload
\* succeeds, return the same confirmation containing the path; any other tag
\* raises the unsupported-language error and no upload call is made.
C7_LanguageCaseInsensitive ==
    (last.op = "create_notebook" /\ Resolved) =>
        LET folded == FoldCase(last.args.language)
        IN IF DictHas(FoldedLanguages, folded)
           THEN /\ Len(last.calls) = 1
                /\ last.calls[1].cap = "workspace.upload"
                /\ last.calls[1].args =
                      [path |-> last.args.path, format |-> "ImportFormat.SOURCE",
                       language |-> DictGet(FoldedLanguages, folded),
                       content |-> [bytes |-> last.args.content], overwrite |-> TRUE]
                /\ last.calls[1].behaviour.exc = None =>
                      /\ last.outcome.kind = "return"
                      /\ Contains(last.outcome.value, last.args.path)
                      /\ last.outcome.value = <<"Notebook created at ", last.args.path>>
           ELSE /\ last.calls = <<>>
                /\ IsUnsupportedLanguage(last.outcome)

C7_Witness ==
    /\ last.op = "create_notebook"
    /\ last.args.language = <<"P", "y", "t", "h", "o", "n">>
    /\ last.args.content = ""
    /\ Len(last.calls) = 1
    /\ last.calls[1].args.language = "Language.PYTHON"
    /\ last.outcome.kind = "return"

NoWarehouseId(w) == w = None \/ w = Some("")

CallsTo(cap) == {i \in 1..Len(last.calls) : last.calls[i].cap = cap}

\* C8: execute_sql_query on a registered connection without a warehouse id
\* (None, or the empty string, which the code treats alike) enumerates the
\* warehouses: an empty enumeration returns the error record "No SQL
\* warehouses available" and the statement is never submitted; a non-empty
\* one submits the statement exactly once, against the first warehouse
\* enumerated. With a warehouse id nothing is enumerated and the statement is
\* submitted once against that id.
C8_WarehouseSelection ==
    (last.op = "execute_sql_query" /\ Resolved) =>
        IF NoWarehouseId(last.args.warehouse_id)
        THEN /\ CallsTo("warehouses.list") = {1}
             /\ LET pool == last.calls[1].behaviour
                IN /\ (pool.exc = None /\ pool.items = <<>>) =>
                         /\ last.outcome = Return([error |-> <<"No SQL warehouses available">>])
                         /\ CallsTo("statement_execution.execute_statement") = {}
                   /\ (pool.exc = None /\ pool.items # <<>>) =>
                         /\ CallsTo("statement_execution.execute_statement") = {2}
                         /\ Len(last.calls) = 2
                         /\ last.calls[2].args =
                               [statement |-> last.args.query,
                                warehouse_id |-> pool.items[1].id]
        ELSE /\ CallsTo("warehouses.list") = {}
             /\ Len(last.calls) = 1
             /\ last.calls[1].cap = "statement_execution.execute_statement"
             /\ last.calls[1].args =
                   [statement |-> last.args.query,
                    warehouse_id |-> last.args.warehouse_id[1]]

C8_Witness ==
    /\ last.op = "execute_sql_query"
    /\ last.args.warehouse_id = None
    /\ Len(last.calls) = 2
    /\ Len(last.calls[1].behaviour.items) = 2
    /\ last.calls[1].behaviour.items[1].id = "w2"
    /\ last.calls[1].behaviour.items[2].id = "w1"
    /\ last.calls[2].args.warehouse_id = "w2"

\* C9: in every tool that resolves a connection, resolution comes first: when
\* the name is not in the store the call raises the unknown-connection error,
\* makes no backend call and leaves the store as it was, in create_notebook
\* also when the language tag is unsupported.
C9_NotFoundFirst ==
    [][(last'.op \in GatewayOps /\ ~DictHas(connections, last'.args.connection_name)) =>
          /\ IsNotFound(last'.outcome, last'.args.connection_name)
          /\ last'.calls = <<>>
          /\ connections' = connections]_vars

C9_Witness ==
    /\ last.op = "create_notebook"
    /\ last.args.language = <<"J", "A", "V", "A">>
    /\ ~DictHas(connections, last.args.connection_name)
    /\ IsNotFound(last.outcome, last.args.connection_name)
    /\ last.calls = <<>>

\* C10: every record in the store carries as its name the key it is stored
\* under.
C10_KeyEqualsName ==
    \A i \in 1..Len(connections) : connections[i].val.name = connections[i].key
====
